---- MODULE Spec2Model ----
(***************************************************************************)
(* Model of src/app.js: a Mongoose change-stream listener that keeps the   *)
(* resume token of the last processed change in lastResumeToken and        *)
(* re-subscribes from its 'error' handler through setTimeout.              *)
(*                                                                         *)
(* The store and the driver are the environment.  Following the interface  *)
(* the stream exposes, a stream delivers change events in commit order and *)
(* then at most one terminal signal ('error' or a 'close' of its own);     *)
(* after its 'error' a stream delivers no further change.                  *)
(***************************************************************************)
EXTENDS Integers, Sequences, FiniteSets, TLC

VARIABLES
    lastResumeToken,      \* app.js:20; 0 stands for null
    streams,              \* one record per call of setupChangeStream
    committed,            \* positions 1..committed are inserts committed by the store
    mainPc,               \* position of runMongooseResumableDemo
    currentChangeStream,  \* app.js:80; 0 stands for null
    conn,                 \* the mongoose connection
    cleanups,             \* calls of cleanup (one per SIGINT/SIGTERM) suspended at their await
    exited,               \* "no", or how the process ended
    exitDisconnect,       \* the mongoose.disconnect() of the cleanup that called process.exit
    lastProcessed,        \* ghost: position of the last change processed since the last error signal
    owed                  \* ghost: positions committed since the first subscription and not yet
                          \* handed to the 'change' handler

vars == << lastResumeToken, streams, committed, mainPc, currentChangeStream,
           conn, cleanups, exited, exitDisconnect, lastProcessed, owed >>

\* ---------------------------------------------------------------- bounds
MaxPos == 3        \* inserts the store commits
MaxStreams == 3    \* calls of setupChangeStream
MaxSignals == 2    \* termination signals received
MaxCloseWait == 1  \* seconds an awaited changeStream.close() may take

\* setTimeout(setupChangeStream, 5000): the retry delay, in seconds.
RetryDelay == 5

\* ------------------------------------------------------------ vocabulary
HistoryLost == "ChangeStreamHistoryLost"

\* Code names of the resumable errors the comment of the error handler lists.
ResumableCodeNames == { "HostUnreachable" }

\* A stream error of the store: history lost, a connectivity error, an
\* authorization failure.  "undefined" is the codeName of an exception thrown
\* by a listener (a JavaScript Error carries no codeName).
StoreCodeNames == { HistoryLost, "HostUnreachable", "Unauthorized" }

\* error.message: the wording of a history-loss report and another wording.
\* The handler prints it (console.error) and any wording may come with any
\* codeName.
HistoryLostMessage == "resume point may no longer be in the oplog"

Messages == { HistoryLostMessage, "connection timed out" }

\* The error objects that can reach the 'error' handler.
Errors == [ codeName : StoreCodeNames \cup { "undefined" }, message : Messages ]

StreamIds == 1..Len(streams)

\* ------------------------------------------------------ setupChangeStream
\* const options = lastResumeToken ? { resumeAfter: lastResumeToken } : {};
\* the result is the resumeAfter position, 0 when the option is absent.
ResumeOptionNone(token) == 0

ResumeOption(token) == IF token # 0 THEN token ELSE 0

\* Where the store starts a stream: just after resumeAfter, or at the
\* present end of the log when there is no resume position.
StartCursor(resumeAfter) ==
    IF resumeAfter # 0 THEN resumeAfter + 1 ELSE committed + 1

\* A setupChangeStream that would retry a throwing watch by itself.
NewStreamRetriesItself(parent, watchOk) ==
    [ st          |-> IF watchOk THEN "open" ELSE "failed",
      resumeAfter |-> ResumeOption(lastResumeToken),
      cursor      |-> IF watchOk THEN StartCursor(ResumeOption(lastResumeToken)) ELSE 0,
      term        |-> "none",
      codeName    |-> "none",
      tokAtErr    |-> 0,
      hpc         |-> "idle",
      timers      |-> IF watchOk THEN 0 ELSE 1,
      delay       |-> 0,
      waited      |-> 0,
      parent      |-> parent,
      hlWarns     |-> 0,
      cbFailed    |-> FALSE ]

\* The record of one call of setupChangeStream.  parent is the stream whose
\* error handler scheduled the call (0: the initial set-up).
NewStream(parent, watchOk) ==
    [ st          |-> IF watchOk THEN "open" ELSE "failed",
      resumeAfter |-> ResumeOption(lastResumeToken),
      cursor      |-> IF watchOk THEN StartCursor(ResumeOption(lastResumeToken)) ELSE 0,
      term        |-> "none",
      codeName    |-> "none",
      tokAtErr    |-> 0,
      hpc         |-> "idle",
      timers      |-> 0,
      delay       |-> 0,
      waited      |-> 0,
      parent      |-> parent,
      hlWarns     |-> 0,
      cbFailed    |-> FALSE ]

\* ------------------------------------------------------- 'change' handler
\* lastResumeToken = change._id;
ChangeHandlerStale(change) == lastResumeToken

ChangeHandler(change) == change._id

\* -------------------------------------------------------- 'error' handler
\* if (error.codeName === 'ChangeStreamHistoryLost') lastResumeToken = null;
TokenAfterErrorKeep(error, token) == token

TokenAfterErrorAlways(error, token) == 0

TokenAfterErrorByMessage(error, token) ==
    IF error.message = HistoryLostMessage THEN 0 ELSE token

TokenAfterError(error, token) ==
    IF error.codeName = HistoryLost THEN 0 ELSE token

\* console.warn("Change stream history lost ...") runs in the same branch.
WarnsAfterError(error, n) ==
    IF error.codeName = HistoryLost THEN n + 1 ELSE n

\* setTimeout(f, delay) arms a timer that fires no earlier than delay from now.
ArmTimerNow(delay) == 0

ArmTimer(delay) == delay

\* setTimeout(setupChangeStream, 5000) adds one pending timer; it is the last
\* statement but one of the handler and no condition guards it.
ScheduleRetryCapped(n) == IF Len(streams) < 2 THEN n + 1 ELSE n

ScheduleRetry(n) == n + 1

\* The handler up to its first suspension.  closedAlready is the value of
\* changeStream.closed it reads: when true it goes straight to setTimeout,
\* otherwise it calls close() and is suspended on the await.
OnError(s, error, closedAlready, failed) ==
    /\ lastResumeToken' = TokenAfterError(error, lastResumeToken)
    /\ streams' = [ streams EXCEPT ![s] =
          [ @ EXCEPT !.term     = "error",
                     !.codeName = error.codeName,
                     !.tokAtErr = lastResumeToken,
                     !.hlWarns  = WarnsAfterError(error, @),
                     !.cbFailed = failed,
                     !.cursor   = 0,
                     !.st       = IF closedAlready THEN "closed" ELSE @,
                     !.hpc      = IF closedAlready THEN "done" ELSE "awaitClose",
                     !.timers   = IF closedAlready THEN ScheduleRetry(@) ELSE @,
                     !.delay    = IF closedAlready THEN ArmTimer(RetryDelay) ELSE @ ] ]
    /\ lastProcessed' = 0

Running == exited = "no"

Live(s) == streams[s].st = "open" /\ streams[s].term = "none"

\* ---------------------------------------------------------------- actions
Init ==
    /\ lastResumeToken = 0
    /\ streams = << >>
    /\ committed = 0
    /\ mainPc = "connecting"
    /\ currentChangeStream = 0
    /\ conn = "none"
    /\ cleanups = 0
    /\ exited = "no"
    /\ exitDisconnect = "none"
    /\ lastProcessed = 0
    /\ owed = { }

\* The first subscription has been made.
Subscribed == \E s \in StreamIds : streams[s].st # "failed"

\* The store commits an insert.
Insert ==
    /\ Running
    /\ committed < MaxPos
    /\ committed' = committed + 1
    /\ owed' = IF Subscribed THEN owed \cup { committed + 1 } ELSE owed
    /\ UNCHANGED << lastResumeToken, streams, mainPc, currentChangeStream,
                    conn, cleanups, exited, exitDisconnect, lastProcessed >>

\* await mongoose.connect(uri) resolves; setupChangeStream runs and
\* MessageModel.watch returns a stream; the demo reaches its keep-alive await.
ConnectOk ==
    /\ Running
    /\ mainPc = "connecting"
    /\ conn' = "connected"
    /\ streams' = Append(streams, NewStream(0, TRUE))
    /\ currentChangeStream' = Len(streams) + 1
    /\ mainPc' = "keepalive"
    /\ UNCHANGED << lastResumeToken, committed, cleanups, exited, lastProcessed, exitDisconnect, owed >>

\* The finally block of runMongooseResumableDemo up to its await of
\* mongoose.disconnect().
Finally(strs) ==
    /\ streams' =
          IF currentChangeStream # 0 /\ strs[currentChangeStream].st = "open"
          THEN [ strs EXCEPT ![currentChangeStream].st = "closed" ]
          ELSE strs
    /\ mainPc' = "finallyDisconnect"

\* mongoose.connect rejects: catch, then finally.
ConnectFails ==
    /\ Running
    /\ mainPc = "connecting"
    /\ Finally(streams)
    /\ UNCHANGED << lastResumeToken, committed, currentChangeStream, conn,
                    cleanups, exited, lastProcessed, exitDisconnect, owed >>

\* mongoose.connect resolves and MessageModel.watch throws in the initial
\* set-up: the rejection of setupChangeStream is caught, then finally.
InitialWatchThrows ==
    /\ Running
    /\ mainPc = "connecting"
    /\ conn' = "connected"
    /\ Finally(Append(streams, NewStream(0, FALSE)))
    /\ UNCHANGED << lastResumeToken, committed, currentChangeStream,
                    cleanups, exited, lastProcessed, exitDisconnect, owed >>

\* The disconnect awaited in finally settles; a rejection leaves the
\* function and is logged by .catch(console.error).
MainDisconnectSettles ==
    /\ Running
    /\ mainPc = "finallyDisconnect"
    /\ \E ok \in BOOLEAN : conn' = IF ok THEN "disconnected" ELSE conn
    /\ mainPc' = "done"
    /\ UNCHANGED << lastResumeToken, streams, committed, currentChangeStream,
                    cleanups, exited, lastProcessed, exitDisconnect, owed >>

\* A 'change' event is delivered and the handler runs to its end.
StreamChange(s) ==
    /\ Running
    /\ Live(s)
    /\ streams[s].cursor <= committed
    /\ LET change == [ _id |-> streams[s].cursor, operationType |-> "insert" ]
       IN  /\ lastResumeToken' = ChangeHandler(change)
           /\ lastProcessed' = change._id
           /\ owed' = owed \ { change._id }
    /\ streams' = [ streams EXCEPT ![s].cursor = @ + 1 ]
    /\ UNCHANGED << committed, mainPc, currentChangeStream, conn, cleanups, exited, exitDisconnect >>

\* The store reports an error on the stream: the 'error' handler runs up to
\* its first suspension.
StreamError(s) ==
    /\ Running
    /\ Live(s)
    /\ Len(streams) < MaxStreams
    /\ \E codeName \in StoreCodeNames, message \in Messages, closedAlready \in BOOLEAN :
          OnError(s, [ codeName |-> codeName, message |-> message ], closedAlready, FALSE)
    /\ UNCHANGED << committed, mainPc, currentChangeStream, conn, cleanups, exited, exitDisconnect, owed >>

\* The 'change' handler throws while it prints the event, before it reaches
\* the assignment of lastResumeToken.  The exception leaves the listener:
\* the driver turns it into an 'error' event of the stream.
ChangeThrowsError(s) ==
    /\ Running
    /\ Live(s)
    /\ streams[s].cursor <= committed
    /\ Len(streams) < MaxStreams
    /\ \E message \in Messages, closedAlready \in BOOLEAN :
          OnError(s, [ codeName |-> "undefined", message |-> message ], closedAlready, TRUE)
    /\ owed' = owed \ { streams[s].cursor }
    /\ UNCHANGED << committed, mainPc, currentChangeStream, conn, cleanups, exited, exitDisconnect >>

\* The same failure where nothing catches the exception: the process dies.
ChangeThrowsCrash(s) ==
    /\ Running
    /\ Live(s)
    /\ streams[s].cursor <= committed
    /\ streams' = [ streams EXCEPT ![s].cbFailed = TRUE ]
    /\ owed' = owed \ { streams[s].cursor }
    /\ exited' = "crash"
    /\ UNCHANGED << lastResumeToken, committed, mainPc, currentChangeStream,
                    conn, cleanups, lastProcessed, exitDisconnect >>

\* await changeStream.close().catch(...) settles and the handler goes on to
\* setTimeout(setupChangeStream, 5000).  A rejected close is only logged; it
\* leaves the stream as it was.
CloseSettled(s, ok) == IF ok THEN "closed" ELSE streams[s].st

ErrorHandlerResumes(s) ==
    /\ Running
    /\ streams[s].hpc = "awaitClose"
    /\ \E ok \in BOOLEAN :
          streams' = [ streams EXCEPT ![s] =
              [ @ EXCEPT !.st = CloseSettled(s, ok),
                         !.hpc = "done",
                         !.timers = ScheduleRetry(@),
                         !.delay = ArmTimer(RetryDelay) ] ]
    /\ UNCHANGED << lastResumeToken, committed, mainPc, currentChangeStream,
                    conn, cleanups, exited, exitDisconnect, lastProcessed, owed >>

\* The store closes the stream without an error: the 'close' handler prints
\* a line and does nothing else.
StreamClose(s) ==
    /\ Running
    /\ Live(s)
    /\ streams' = [ streams EXCEPT ![s] = [ @ EXCEPT !.st = "closed", !.term = "clean", !.cursor = 0 ] ]
    /\ UNCHANGED << lastResumeToken, committed, mainPc, currentChangeStream,
                    conn, cleanups, exited, exitDisconnect, lastProcessed, owed >>

\* A pending retry timer of stream s has run out.
TimerDue(s) == streams[s].timers > 0 /\ streams[s].delay = 0

\* The stream has reported an error and no retry of it has run yet.
AwaitingRetry(s) ==
    /\ streams[s].term = "error"
    /\ \A t \in StreamIds : streams[t].parent # s

\* Time passes.  While a close is awaited it passes second by second (for
\* at most MaxCloseWait); otherwise it passes up to the expiry of the next
\* pending timer, since nothing else in the program depends on time.
\* Pending timers run down; waited counts the time since the error signal of
\* a stream not yet retried (it stops at RetryDelay).
RunningTimers == { s \in StreamIds : streams[s].timers > 0 /\ streams[s].delay > 0 }

ClosesAwaited == { s \in StreamIds : streams[s].hpc = "awaitClose" }

TickStep ==
    IF ClosesAwaited # { }
    THEN 1
    ELSE LET ds == { streams[s].delay : s \in RunningTimers }
         IN  CHOOSE d \in ds : \A e \in ds : d <= e

Tick ==
    /\ Running
    /\ \/ RunningTimers # { } /\ ClosesAwaited = { }
       \/ \E s \in ClosesAwaited : streams[s].waited < MaxCloseWait
    /\ streams' = [ s \in StreamIds |->
          [ streams[s] EXCEPT
              !.delay  = IF @ > TickStep THEN @ - TickStep ELSE 0,
              !.waited = IF ~AwaitingRetry(s) THEN @
                         ELSE IF @ + TickStep < RetryDelay THEN @ + TickStep
                         ELSE RetryDelay ] ]
    /\ UNCHANGED << lastResumeToken, committed, mainPc, currentChangeStream,
                    conn, cleanups, exited, exitDisconnect, lastProcessed, owed >>

\* A retry timer fires and setupChangeStream subscribes.
TimerFires(s) ==
    /\ Running
    /\ TimerDue(s)
    /\ streams' = Append([ streams EXCEPT ![s].timers = @ - 1 ], NewStream(s, TRUE))
    /\ UNCHANGED << lastResumeToken, committed, mainPc, currentChangeStream,
                    conn, cleanups, exited, exitDisconnect, lastProcessed, owed >>

\* A retry timer fires and MessageModel.watch throws: setupChangeStream
\* rejects and nothing handles the rejection, which ends the process or is
\* only reported, depending on the runtime.
TimerFiresWatchThrows(s) ==
    /\ Running
    /\ TimerDue(s)
    /\ streams' = Append([ streams EXCEPT ![s].timers = @ - 1 ], NewStream(s, FALSE))
    /\ \E crash \in BOOLEAN : exited' = IF crash THEN "crash" ELSE exited
    /\ UNCHANGED << lastResumeToken, committed, mainPc, currentChangeStream,
                    conn, cleanups, lastProcessed, exitDisconnect, owed >>

\* SIGINT or SIGTERM: cleanup starts, calls mongoose.disconnect() and is
\* suspended on the await.
Signal ==
    /\ Running
    /\ cleanups < MaxSignals
    /\ cleanups' = cleanups + 1
    /\ UNCHANGED << lastResumeToken, streams, committed, mainPc,
                    currentChangeStream, conn, exited, lastProcessed, exitDisconnect, owed >>

\* How the awaited mongoose.disconnect() of a cleanup settles; a rejection
\* is caught and logged by its .catch.
DisconnectNotAwaited(ok) == "pending"

DisconnectSettled(ok) == IF ok THEN "resolved" ELSE "rejected"

\* How the process ends once that disconnect has settled: a rejection is
\* consumed by the .catch, so process.exit(0) runs in both cases.
ExitAfterDisconnectUncaught(ok) == IF ok THEN "signal" ELSE "crash"

ExitAfterDisconnect(ok) == "signal"

\* The disconnect of a suspended cleanup settles and the cleanup resumes at
\* process.exit(0), the statement after the await.
CleanupExit ==
    /\ Running
    /\ cleanups > 0
    /\ \E ok \in BOOLEAN :
          /\ conn' = IF ok THEN "disconnected" ELSE conn
          /\ exitDisconnect' = DisconnectSettled(ok)
          /\ exited' = ExitAfterDisconnect(ok)
    /\ cleanups' = cleanups - 1
    /\ UNCHANGED << lastResumeToken, streams, committed, mainPc,
                    currentChangeStream, lastProcessed, owed >>

\* runMongooseResumableDemo has returned and nothing keeps the event loop
\* alive: the process ends by itself.
NaturalExit ==
    /\ Running
    /\ mainPc = "done"
    /\ cleanups = 0
    /\ \A s \in StreamIds : streams[s].st # "open" /\ streams[s].timers = 0
    /\ exited' = "natural"
    /\ UNCHANGED << lastResumeToken, streams, committed, mainPc,
                    currentChangeStream, conn, cleanups, lastProcessed, exitDisconnect, owed >>

Next ==
    \/ Insert
    \/ ConnectOk
    \/ ConnectFails
    \/ InitialWatchThrows
    \/ MainDisconnectSettles
    \/ \E s \in StreamIds : StreamChange(s)
    \/ \E s \in StreamIds : StreamError(s)
    \/ \E s \in StreamIds : ChangeThrowsError(s)
    \/ \E s \in StreamIds : ChangeThrowsCrash(s)
    \/ \E s \in StreamIds : ErrorHandlerResumes(s)
    \/ \E s \in StreamIds : StreamClose(s)
    \/ \E s \in StreamIds : TimerFires(s)
    \/ \E s \in StreamIds : TimerFiresWatchThrows(s)
    \/ Tick
    \/ Signal
    \/ CleanupExit
    \/ NaturalExit

Spec == Init /\ [][Next]_vars

\* The scheduling the event loop provides: an awaited close that returns
\* resumes its handler, time passes, and a timer that is due fires.
Fairness ==
    /\ WF_vars(\E s \in StreamIds : ErrorHandlerResumes(s))
    /\ WF_vars(Tick)
    /\ WF_vars(\E s \in StreamIds : TimerFires(s) \/ TimerFiresWatchThrows(s))

LiveSpec == Spec /\ Fairness

\* ------------------------------------------------------------- properties
OpenStreams == { s \in StreamIds : streams[s].st = "open" }

Children(s) == { t \in StreamIds : streams[t].parent = s }

\* The subscriptions issued by a retry timer of stream p.
Retried(p) == streams[p].timers > 0 \/ Children(p) # { }

\* Fatal for the classifier of the design: neither history loss nor one of
\* the resumable code names.
IsFatal(codeName) ==
    codeName \notin ({ "none", HistoryLost } \cup ResumableCodeNames)

\* C1: after a change event has been processed, with no error signal since,
\* the checkpoint lastResumeToken equals the position (_id) of that event.
C1_CheckpointIsLastPosition ==
    lastProcessed # 0 => lastResumeToken = lastProcessed

C1_Witness ==
    /\ Len(streams) = 1
    /\ streams[1].resumeAfter = 0
    /\ streams[1].cursor = 4
    /\ lastProcessed = 3
    /\ lastResumeToken = 3

\* C2: a subscription issued by the retry of a stream whose error was not
\* ChangeStreamHistoryLost, raised while the checkpoint was position Pk, is
\* issued with resumeAfter = Pk, never without a resume position.
C2_TransientResumesAtCheckpoint ==
    \A t \in StreamIds :
        LET p == streams[t].parent
        IN  (p # 0 /\ streams[p].codeName # HistoryLost /\ streams[p].tokAtErr # 0)
                => streams[t].resumeAfter = streams[p].tokAtErr

\* Events 1 and 2, a connectivity error, a subscription resuming after 2,
\* event 3: the checkpoint ends at 3.
C2_Witness ==
    \E t \in StreamIds :
        LET p == streams[t].parent
        IN  /\ p # 0
            /\ streams[p].codeName = "HostUnreachable"
            /\ streams[p].tokAtErr = 2
            /\ streams[t].resumeAfter = 2
            /\ streams[t].cursor = 4
            /\ lastResumeToken = 3

\* C3: a subscription issued by the retry of a stream whose error was
\* ChangeStreamHistoryLost carries no resume position, whatever the
\* checkpoint was, and the history-lost warning is printed once for each
\* such error and for no other.
C3_HistoryLostRestartsFresh ==
    /\ \A t \in StreamIds :
          LET p == streams[t].parent
          IN  (p # 0 /\ streams[p].codeName = HistoryLost)
                  => streams[t].resumeAfter = 0
    /\ \A s \in StreamIds :
          streams[s].hlWarns = IF streams[s].codeName = HistoryLost THEN 1 ELSE 0

C3_Witness ==
    \E t \in StreamIds :
        LET p == streams[t].parent
        IN  /\ p # 0
            /\ streams[p].codeName = HistoryLost
            /\ streams[p].tokAtErr # 0
            /\ streams[p].hlWarns = 1
            /\ streams[t].st = "open"
            /\ streams[t].resumeAfter = 0

\* C4: at most one change stream is open in every reachable state, also
\* when the close of the errored stream fails.
C4_AtMostOneOpenStream == Cardinality(OpenStreams) <= 1

\* C5: after an error classified Fatal no retry is scheduled and no further
\* subscription is attempted.
C5_FatalStops ==
    \A s \in StreamIds : IsFatal(streams[s].codeName) => ~Retried(s)

\* C6: a stream that closed without an error is retried like a transient
\* termination: once its close signal is handled, a re-subscription is
\* scheduled or made (unless shutdown was requested).
C6_CleanCloseRetries ==
    \A s \in StreamIds :
        (streams[s].term = "clean" /\ Running /\ cleanups = 0) => Retried(s)

\* C7: when the processing of a delivered event fails, the checkpoint is not
\* advanced by that event, and from then on no further subscription is
\* attempted.
C7_CallbackFailureStops ==
    [][ /\ \A s \in StreamIds :
              (~streams[s].cbFailed /\ streams'[s].cbFailed)
                  => lastResumeToken' = lastResumeToken
        /\ (\E s \in StreamIds : streams[s].cbFailed)
              => Len(streams') = Len(streams) ]_vars

\* C8: once a termination signal has been received, a pending retry timer
\* never starts a new subscription.
C8_StopCancelsRetry ==
    [][ cleanups > 0 =>
            \A t \in DOMAIN streams' \ DOMAIN streams : streams'[t].parent = 0 ]_vars

\* C9: when the process exits on a termination signal, no change stream is
\* open any more, whether it was opened by the initial set-up or by a retry.
C9_StreamClosedBeforeExit ==
    exited = "signal" => OpenStreams = { }

\* C10: the process exits on a termination signal only from a cleanup whose
\* mongoose.disconnect() has settled, resolved or rejected-and-caught.
C10_DisconnectBeforeExit ==
    exited = "signal" => exitDisconnect \in { "resolved", "rejected" }

C10_Witness ==
    /\ exited = "signal"
    /\ exitDisconnect = "rejected"
    /\ OpenStreams # { }

\* C11: as long as no stream has reported ChangeStreamHistoryLost, no change
\* committed since the first subscription is skipped: every such change not
\* yet handed to the 'change' handler is still ahead of each live stream.
NoHistoryLost == \A s \in StreamIds : streams[s].codeName # HistoryLost

C11_NoCommittedEventSkipped ==
    NoHistoryLost =>
        \A s \in StreamIds : Live(s) => \A p \in owed : streams[s].cursor <= p

\* C12: every subscription attempted by a retry is made at least RetryDelay
\* after the error signal of the stream it replaces, whatever the error and
\* however many retries came before.
C12_RetryWaitsFixedInterval ==
    \A t \in StreamIds :
        streams[t].parent # 0 => streams[streams[t].parent].waited >= RetryDelay

\* A second retry in a row, after a fatal error, made after the full wait.
C12_Witness ==
    \E t \in StreamIds :
        LET p == streams[t].parent
        IN  /\ p # 0
            /\ streams[p].parent # 0
            /\ streams[p].codeName = "Unauthorized"
            /\ streams[p].waited = RetryDelay

\* C13: a failing or needless close never escapes and never stops what
\* follows it: an error handler that has finished has scheduled its retry,
\* whether the stream was already closed, its close resolved or its close
\* rejected; and once the disconnect of a cleanup has settled, resolved or
\* rejected, also with a second termination request under way, the process
\* has exited through process.exit(0).
C13_ClosesAreTolerated ==
    /\ \A s \in StreamIds : streams[s].hpc = "done" => Retried(s)
    /\ exitDisconnect # "none" => exited = "signal"

\* Two termination requests; the disconnect that settled first was rejected;
\* the handler of an errored stream whose close was rejected had finished.
C13_Witness ==
    /\ exited = "signal"
    /\ exitDisconnect = "rejected"
    /\ cleanups = 1
    /\ \E s \in StreamIds :
          streams[s].hpc = "done" /\ streams[s].st = "open" /\ Retried(s)

\* C14: after a transient or history-lost error, unless a shutdown is
\* requested, a new subscription is eventually opened: the wait for it does
\* not last for ever.
Recoverable(codeName) == codeName \in ({ HistoryLost } \cup ResumableCodeNames)

C14_RecoveryEventuallyResubscribes ==
    \A s \in 1..(MaxStreams + 1) :
        (s \in StreamIds /\ AwaitingRetry(s) /\ Recoverable(streams[s].codeName))
            ~> (\/ \E t \in StreamIds :
                      streams[t].parent = s /\ streams[t].st # "failed"
                \/ cleanups > 0
                \/ ~Running)

\* C15: a call of setupChangeStream whose watch throws schedules no retry of
\* its own (no timer, no handler, no later subscription comes from it), on
\* the initial set-up and on a timer-driven retry alike; on the initial
\* set-up the failure takes runMongooseResumableDemo to its finally block,
\* which calls mongoose.disconnect().
C15_WatchFailureIsPropagated ==
    \A t \in StreamIds :
        streams[t].st = "failed" =>
            /\ streams[t].timers = 0
            /\ streams[t].hpc = "idle"
            /\ Children(t) = { }
            /\ streams[t].parent = 0 => mainPc \in { "finallyDisconnect", "done" }

\* A timer-driven retry whose watch threw, the process still running.
C15_Witness ==
    /\ Running
    /\ \E t \in StreamIds :
          /\ streams[t].st = "failed"
          /\ streams[t].parent # 0
          /\ \A s \in StreamIds : streams[s].timers = 0

\* C16: what the error handler does to the checkpoint depends on the
\* codeName of the error alone.  For every checkpoint a reachable state
\* holds, two errors with the same codeName and different messages leave the
\* same checkpoint and print the same warnings; and every retry resumes at
\* the position its parent's codeName and checkpoint determine: none after
\* ChangeStreamHistoryLost, the checkpoint after any other codeName.
C16_DispositionByCodeNameOnly ==
    /\ lastResumeToken # 0 =>
          \A c \in StoreCodeNames \cup {"undefined"} :
              LET e1 == [ codeName |-> c, message |-> HistoryLostMessage ]
                  e2 == [ codeName |-> c, message |-> "connection timed out" ]
              IN  /\ TokenAfterError(e1, lastResumeToken) = TokenAfterError(e2, lastResumeToken)
                  /\ WarnsAfterError(e1, 0) = WarnsAfterError(e2, 0)
    /\ \A t \in StreamIds :
          LET p == streams[t].parent
          IN  p # 0 =>
                  streams[t].resumeAfter =
                      IF streams[p].codeName = HistoryLost THEN 0 ELSE streams[p].tokAtErr

\* Both dispositions in one run: a history-lost error that dropped a
\* checkpoint, and a later error with another codeName that kept one.
C16_Witness ==
    \E p, q \in StreamIds :
        /\ streams[p].codeName = HistoryLost
        /\ streams[p].tokAtErr # 0
        /\ Children(p) # { }
        /\ streams[q].codeName = "Unauthorized"
        /\ streams[q].tokAtErr # 0
        /\ lastResumeToken = streams[q].tokAtErr

\* C17: only two kinds of step change the checkpoint: a processed change
\* event, which sets it to the position of that event, and a
\* ChangeStreamHistoryLost error, which resets it to none.  Every other step
\* (another error, a close signal, the wait, a subscription, shutdown)
\* leaves it as it is.
ChangeProcessedStep ==
    \E s \in StreamIds :
        /\ Live(s)
        /\ streams'[s].cursor = streams[s].cursor + 1
        /\ lastResumeToken' = streams[s].cursor

HistoryLostStep ==
    \E s \in StreamIds :
        /\ Live(s)
        /\ streams'[s].codeName = HistoryLost
        /\ lastResumeToken' = 0

C17_CheckpointFrame ==
    [][ lastResumeToken' # lastResumeToken
            => (ChangeProcessedStep \/ HistoryLostStep) ]_vars

\* A checkpoint that went through a transient error, the wait, a retry and a
\* shutdown unchanged.
C17_Witness ==
    /\ exited = "signal"
    /\ \E t \in StreamIds :
          LET p == streams[t].parent
          IN  /\ p # 0
              /\ streams[p].codeName = "HostUnreachable"
              /\ streams[p].tokAtErr = 2
              /\ streams[t].term = "clean"
              /\ lastResumeToken = 2

\* C18: the retry is uncapped and uniform: whenever an error handler
\* finishes, whatever the number of sessions that failed before, it adds one
\* retry timer, and every timer that is armed is armed with RetryDelay.
C18_RetryUncappedUniform ==
    [][ \A s \in StreamIds :
            /\ (streams[s].hpc # "done" /\ streams'[s].hpc = "done")
                  => streams'[s].timers = streams[s].timers + 1
            /\ streams'[s].timers > streams[s].timers
                  => streams'[s].delay = RetryDelay ]_vars

\* The error of a stream that was itself opened by a retry has armed its
\* timer with the full delay.
C18_Witness ==
    \E s \in StreamIds :
        /\ streams[s].parent # 0
        /\ streams[s].term = "error"
        /\ streams[s].timers = 1
        /\ streams[s].delay = RetryDelay

\* C19: with at most one error signal per stream, the open streams and the
\* pending retry timers number at most one together.
RECURSIVE TimersUpTo(_)
TimersUpTo(n) == IF n = 0 THEN 0 ELSE streams[n].timers + TimersUpTo(n - 1)

PendingTimers == TimersUpTo(Len(streams))

C19_OneStreamOrOneTimer ==
    Cardinality(OpenStreams) + PendingTimers <= 1

====
